---- MODULE Spec2Model ----
(***************************************************************************)
(* Model of services/latex_ast/server.py: the SymPy normaliser             *)
(* (sympy_to_ast), the pylatexenc token walker (latex_nodes_to_ast,        *)
(* latex_to_token_ast), the stepwise evaluator (evaluate_step_by_step) and *)
(* the /latex_to_ast_with_steps handler.                                   *)
(*                                                                         *)
(* The two libraries are the environment.  A LaTeX input string is         *)
(* identified by what they make of it: parse_latex(latex) is latex.parse   *)
(* and LatexWalker(latex).get_latex_nodes() is latex.walk, each either a   *)
(* raise or a value.  str(), float(), parse_latex() of a printed           *)
(* expression, the SymPy constructors and evalf() are free constructors:   *)
(* they never collapse to the identity, and whether parse_latex rejects a  *)
(* printed form or evalf raises / changes the expression is chosen by the  *)
(* environment (variables rejected, evalf).                                *)
(***************************************************************************)
EXTENDS Integers, Sequences, FiniteSets

VARIABLES fn, arg, rejected, evalf, pc, result

vars == <<fn, arg, rejected, evalf, pc, result>>

\* ---------------------------------------------------------------- bounds
\* Largest number of nodes of an expression tree handed to the evaluator.
MaxNodes == 4
\* Largest size of a token node list (nodes plus characters of its runs).
MaxTok == 3
\* Largest requested step cutoff n considered.
MaxCutoff == 2

\* ------------------------------------------------------- python outcomes
Return(v) == [raised |-> FALSE, exc |-> "", value |-> v]

Raise(e) == [raised |-> TRUE, exc |-> e, value |-> <<>>]

Last(s) == s[Len(s)]

SetMax(S) == CHOOSE m \in S : \A n \in S : n <= m

\* The first raise of a sequence of outcomes (Python evaluates left to right).
FirstRaised(rs) == rs[CHOOSE j \in 1..Len(rs) : rs[j].raised /\ \A k \in 1..(j - 1) : ~rs[k].raised]

AnyRaised(rs) == \E j \in 1..Len(rs) : rs[j].raised

\* ------------------------------------------------------ SymPy expressions
\* One record shape for every expression: kind is the SymPy class the
\* isinstance tests see, name the symbol / function / numeric-class name,
\* value the numeric value, args the children (expr.args).
Expr(kind, name, value, args) == [kind |-> kind, name |-> name, value |-> value, args |-> args]

NoExpr == Expr("None", "", 0, <<>>)

Number(cls, v) == Expr("Number", cls, v, <<>>)

Symbol(n) == Expr("Symbol", n, 0, <<>>)

\* Anything that is none of Number/Symbol/Add/Mul/Pow/Function (zoo, a
\* relational, an integral ...): only its printed form is used.
Unknown(n) == Expr("Unknown", n, 0, <<>>)

Add(args) == Expr("Add", "", 0, args)

Mul(args) == Expr("Mul", "", 0, args)

Pow(b, e) == Expr("Pow", "", 0, <<b, e>>)

Function(n, args) == Expr("Function", n, 0, args)

\* ------------------------------------------------------- python values
\* A Python float and a Python str; a str produced by str(expr) is the
\* printed form of expr.
PyFloat(v) == [type |-> "float", value |-> v, text |-> NoExpr]

PyStr(e) == [type |-> "str", value |-> 0, text |-> e]

\* float(expr) of a Number: the numeric value, the numeric class is lost.
float(expr) == PyFloat(expr.value)

\* str(expr): the printed form.
str(expr) == PyStr(expr)

\* A Python float passed to a SymPy constructor is sympified to a Float.
sympify(x) == Number("Float", x.value)

\* parse_latex applied to a printed form: rejected (LaTeXParsingError) or
\* the expression the parser makes of that text.
parse_latex_str(s) ==
    IF s.text.kind = rejected
    THEN Raise("LaTeXParsingError")
    ELSE Return(Expr("Parsed", "", 0, <<s.text>>))

\* current_expr.evalf() when it returns.
Evalf(e) == IF evalf = "changed" THEN Expr("Evalf", "", 0, <<e>>) ELSE e

\* ------------------------------------------------------------ sympy_to_ast
RECURSIVE sympy_to_ast(_)
sympy_to_ast(expr) ==
    CASE expr.kind = "Number" -> [type |-> "number", value |-> float(expr)]
      [] expr.kind = "Symbol" -> [type |-> "symbol", name |-> str(expr)]
      [] expr.kind = "Add" ->
            [type |-> "add", args |-> [j \in 1..Len(expr.args) |-> sympy_to_ast(expr.args[j])]]
      [] expr.kind = "Mul" ->
            [type |-> "mul", args |-> [j \in 1..Len(expr.args) |-> sympy_to_ast(expr.args[j])]]
      [] expr.kind = "Pow" ->
            [type |-> "pow", base |-> sympy_to_ast(expr.args[1]), exp |-> sympy_to_ast(expr.args[2])]
      [] expr.kind = "Function" ->
            [type |-> "func", name |-> expr.name,
             args |-> [j \in 1..Len(expr.args) |-> sympy_to_ast(expr.args[j])]]
      [] OTHER -> [type |-> "unknown", repr |-> str(expr)]

\* --------------------------------------------------- evaluate_step_by_step
\* max(len(r) for r in args_results): ValueError on an empty argument list.
max_steps(rs) ==
    IF Len(rs) = 0
    THEN Raise("ValueError")
    ELSE Return(SetMax({Len(rs[j]) : j \in 1..Len(rs)}))

\* A variant of step_args that walks the children in reverse order.
step_args_reversed(rs, i) ==
    [j \in 1..Len(rs) |->
        LET r == rs[Len(rs) + 1 - j] IN IF i <= Len(r) THEN r[i] ELSE Last(r)]

\* The inner loop over the children: the i-th step of each child, or its
\* last one once the child has run out (Python index i-1, and -1).
step_args(rs, i) ==
    [j \in 1..Len(rs) |-> IF i <= Len(rs[j]) THEN rs[j][i] ELSE Last(rs[j])]

\* parse_latex(str(arg)) if isinstance(arg, str) else arg
reparse(a) == IF a.type = "str" THEN parse_latex_str(a) ELSE Return(sympify(a))

\* current_expr = Add(*[...]) / Mul(*[...]) / Pow(., .) / func_type(*[...]):
\* outside the try, so a rejected printed form raises out of the loop.
rebuild(kind, name, sa) ==
    LET ps == [j \in 1..Len(sa) |-> reparse(sa[j])]
    IN  IF AnyRaised(ps)
        THEN Raise(FirstRaised(ps).exc)
        ELSE Return(Expr(kind, name, 0, [j \in 1..Len(ps) |-> ps[j].value]))

\* The try / bare except around evalf(): the text appended for one step.
simplify(current_expr) ==
    IF evalf = "raises"
    THEN str(current_expr)
    ELSE LET evaluated == Evalf(current_expr)
         IN  IF evaluated # current_expr THEN str(evaluated) ELSE str(current_expr)

\* A variant of steps_loop that appends the candidate's text and then the
\* simplified text for every step index.
steps_loop_both(kind, name, rs, n) ==
    LET cands == [i \in 1..n |-> rebuild(kind, name, step_args(rs, i))]
    IN  IF AnyRaised(cands)
        THEN Raise(FirstRaised(cands).exc)
        ELSE Return([i \in 1..(2 * n) |->
                        IF i % 2 = 1 THEN str(cands[(i + 1) \div 2].value)
                        ELSE simplify(cands[i \div 2].value)])

\* for i in range(max_steps): one rebuilt candidate, one appended step.
steps_loop(kind, name, rs, n) ==
    LET cands == [i \in 1..n |-> rebuild(kind, name, step_args(rs, i))]
    IN  IF AnyRaised(cands)
        THEN Raise(FirstRaised(cands).exc)
        ELSE Return([i \in 1..n |-> simplify(cands[i].value)])

\* The Add, Mul and Function branches, given the children's outcomes.
variadic_branch(expr, outs) ==
    IF AnyRaised(outs)
    THEN Raise(FirstRaised(outs).exc)
    ELSE LET args_results == [j \in 1..Len(outs) |-> outs[j].value]
             m == max_steps(args_results)
         IN  IF m.raised
             THEN Raise(m.exc)
             ELSE steps_loop(expr.kind, expr.name, args_results, m.value)

\* The Pow branch: exactly (base, exponent), max over the two lengths.
pow_branch(expr, outs) ==
    IF AnyRaised(outs)
    THEN Raise(FirstRaised(outs).exc)
    ELSE LET base_results == outs[1].value
             exp_results == outs[2].value
             n == IF Len(base_results) >= Len(exp_results)
                  THEN Len(base_results) ELSE Len(exp_results)
         IN  steps_loop("Pow", "", <<base_results, exp_results>>, n)

\* Number leaf: return [float(expr)]
number_leaf(expr) == Return(<<float(expr)>>)

RECURSIVE evaluate_step_by_step(_)
evaluate_step_by_step(expr) ==
    CASE expr.kind = "Number" -> number_leaf(expr)
      [] expr.kind = "Symbol" -> Return(<<str(expr)>>)
      [] expr.kind \in {"Add", "Mul", "Function"} ->
            variadic_branch(expr, [j \in 1..Len(expr.args) |-> evaluate_step_by_step(expr.args[j])])
      [] expr.kind = "Pow" ->
            pow_branch(expr, <<evaluate_step_by_step(expr.args[1]), evaluate_step_by_step(expr.args[2])>>)
      [] OTHER -> Return(<<str(expr)>>)

\* ----------------------------------------------------- expression inputs
Leaves == {Number("Integer", 2), Symbol("x"), Unknown("Integral")}

\* Expressions with exactly n nodes; ForestsOfSize(n) the child lists with n
\* nodes in all.  SymPy's Add and Mul constructors return the identity for no
\* argument and the argument itself for one, so an Add or Mul object holds at
\* least two; an applied function holds any number, none included (f()).
RECURSIVE TreesOfSize(_), ForestsOfSize(_)
TreesOfSize(n) ==
    IF n = 1
    THEN Leaves \cup {Function("f", <<>>)}
    ELSE {Function("f", f) : f \in ForestsOfSize(n - 1)}
         \cup {Expr(k, "", 0, f) : k \in {"Add", "Mul"},
                                   f \in {g \in ForestsOfSize(n - 1) : Len(g) >= 2}}
         \cup UNION {{Pow(b, e) : b \in TreesOfSize(a), e \in TreesOfSize(n - 1 - a)} :
                        a \in 1..(n - 2)}

ForestsOfSize(n) ==
    IF n = 0
    THEN {<<>>}
    ELSE UNION {{<<t>> \o f : t \in TreesOfSize(k), f \in ForestsOfSize(n - k)} : k \in 1..n}

Trees == UNION {TreesOfSize(n) : n \in 1..MaxNodes}

\* The printed forms parse_latex may reject, by the class printed: the text
\* of a power ("x**2"), of a limit, sum or definite integral, of a composite
\* holding one, of an evalf result holding one; or none.
RejectChoices == {"none", "Unknown", "Add", "Mul", "Pow", "Function", "Evalf"}

EvalfChoices == {"raises", "unchanged", "changed"}

\* ------------------------------------------------------ pylatexenc nodes
\* One record shape for every node the walker yields.  kind is the node
\* class: "macro", "group", "math", "chars", or "comment" for the classes the
\* converter has no branch for (LatexCommentNode, LatexSpecialsNode,
\* LatexEnvironmentNode).  nodeargd.none is nodeargd being None.
TokNode(kind, macroname, chars, nodelist, nodeargd) ==
    [kind |-> kind, macroname |-> macroname, chars |-> chars, nodelist |-> nodelist,
     nodeargd |-> nodeargd]

NoArgd == [none |-> TRUE, argnlist |-> <<>>]

Argd(argnlist) == [none |-> FALSE, argnlist |-> argnlist]

\* An absent optional argument: None in argnlist.
NoneArg == TokNode("None", "", <<>>, <<>>, NoArgd)

CharsNode(chars) == TokNode("chars", "", chars, <<>>, NoArgd)

GroupNode(nodelist) == TokNode("group", "", <<>>, nodelist, NoArgd)

MathNode(nodelist) == TokNode("math", "", <<>>, nodelist, NoArgd)

MacroNode(macroname, nodeargd) == TokNode("macro", macroname, <<>>, <<>>, nodeargd)

CommentNode == TokNode("comment", "", <<>>, <<>>, NoArgd)

\* ch.isspace()
isspace(ch) == ch \in {" ", "\t", "\n"}

\* The node classes that carry a nodelist attribute.
HasNodelist(node) == node.kind \in {"group", "math"}

RECURSIVE Concat(_)
Concat(ss) == IF ss = <<>> THEN <<>> ELSE Head(ss) \o Concat(Tail(ss))

\* for ch in node.chars: if not ch.isspace(): append a char node
chars_to_ast(chars) ==
    LET kept == SelectSeq(chars, LAMBDA ch : ~isspace(ch))
    IN  [k \in 1..Len(kept) |-> [type |-> "char", value |-> kept[k]]]

\* sum([arg.nodelist for arg in node.nodeargd.argnlist if arg], []):
\* arg.nodelist of a node without that attribute raises AttributeError.
flatten_args(argnlist) ==
    LET present == SelectSeq(argnlist, LAMBDA a : a.kind # "None")
    IN  IF \E k \in 1..Len(present) : ~HasNodelist(present[k])
        THEN Raise("AttributeError")
        ELSE Return(Concat([k \in 1..Len(present) |-> present[k].nodelist]))

RECURSIVE latex_nodes_to_ast(_), node_to_ast(_)
\* What one iteration of the loop appends to ast.
node_to_ast(node) ==
    CASE node.kind = "macro" ->
            IF node.nodeargd.none
            THEN Return(<<[type |-> "macro", name |-> "\\" \o node.macroname, args |-> <<>>]>>)
            ELSE LET flat == flatten_args(node.nodeargd.argnlist)
                     inner == latex_nodes_to_ast(flat.value)
                 IN  IF flat.raised THEN Raise(flat.exc)
                     ELSE IF inner.raised THEN Raise(inner.exc)
                     ELSE Return(<<[type |-> "macro", name |-> "\\" \o node.macroname,
                                    args |-> inner.value]>>)
      [] node.kind = "group" ->
            LET inner == latex_nodes_to_ast(node.nodelist)
            IN  IF inner.raised THEN Raise(inner.exc)
                ELSE Return(<<[type |-> "group", children |-> inner.value]>>)
      [] node.kind = "math" ->
            LET inner == latex_nodes_to_ast(node.nodelist)
            IN  IF inner.raised THEN Raise(inner.exc)
                ELSE Return(<<[type |-> "math", children |-> inner.value]>>)
      [] node.kind = "chars" -> Return(chars_to_ast(node.chars))
      [] OTHER -> Return(<<>>)

latex_nodes_to_ast(nodes) ==
    LET outs == [k \in 1..Len(nodes) |-> node_to_ast(nodes[k])]
    IN  IF AnyRaised(outs)
        THEN Raise(FirstRaised(outs).exc)
        ELSE Return(Concat([k \in 1..Len(outs) |-> outs[k].value]))

\* ------------------------------------------------------------ LaTeX input
\* A LaTeX string, identified by the outcome of parse_latex on it and the
\* outcome of LatexWalker(latex).get_latex_nodes().
Latex(parse, walk) == [parse |-> parse, walk |-> walk]

parse_latex(latex) == latex.parse

get_latex_nodes(latex) == latex.walk

latex_to_token_ast(latex) ==
    LET nodes == get_latex_nodes(latex)
        children == latex_nodes_to_ast(nodes.value)
    IN  IF nodes.raised THEN Raise(nodes.exc)
        ELSE IF children.raised THEN Raise(children.exc)
        ELSE Return([type |-> "latex_token_ast", children |-> children.value])

\* ------------------------------------------------ latex_to_ast_with_steps
\* The except Exception branch: the syntactic result, or the walker's raise.
syntactic_result(latex, e) ==
    LET ast == latex_to_token_ast(latex)
    IN  IF ast.raised
        THEN Raise(ast.exc)
        ELSE Return([mode |-> "syntactic", ast |-> ast.value, steps |-> <<>>,
                     original |-> latex, final_result |-> latex, error |-> e])

\* A variant of the handler's except clause that names the parser's error.
caught_parse_error_only(e) == e = "LaTeXParsingError"

\* except Exception: every exception the try body can raise is caught.
caught(e) == TRUE

\* A variant of the try body's return whose final_result is always str(expr).
semantic_result_expr_text(latex, expr, ast_result, steps) ==
    Return([mode |-> "semantic", ast |-> ast_result, steps |-> steps, original |-> latex,
            final_result |-> str(expr)])

\* The return of the try body.
semantic_result(latex, expr, ast_result, steps) ==
    Return([mode |-> "semantic", ast |-> ast_result, steps |-> steps, original |-> latex,
            final_result |-> IF steps # <<>> THEN Last(steps) ELSE str(expr)])

latex_to_ast_with_steps(latex) ==
    LET parsed == parse_latex(latex)
        expr == parsed.value
        ast_result == sympy_to_ast(expr)
        steps == evaluate_step_by_step(expr)
        failure == IF parsed.raised THEN parsed ELSE steps
    IN  IF failure.raised
        THEN IF caught(failure.exc) THEN syntactic_result(latex, failure.exc)
             ELSE Raise(failure.exc)
        ELSE semantic_result(latex, expr, ast_result, steps.value)

\* ------------------------------------------------------------ token inputs
Alphabet == {"a", "b", " "}

RECURSIVE CharsOfLen(_)
CharsOfLen(n) ==
    IF n = 0 THEN {<<>>} ELSE {<<c>> \o cs : c \in Alphabet, cs \in CharsOfLen(n - 1)}

\* Nodes of size n (a node counts 1, a character run its length), node lists
\* and macro argument lists of total size n.  A macro argument is None, a
\* brace group, or a bare one-character run (\frac12).
RECURSIVE TokOfSize(_), TokListsOfSize(_), ArgListsOfSize(_)
TokOfSize(n) ==
    {CharsNode(cs) : cs \in CharsOfLen(n)}
    \cup {GroupNode(l) : l \in TokListsOfSize(n - 1)}
    \cup {MathNode(l) : l \in TokListsOfSize(n - 1)}
    \cup {MacroNode("frac", Argd(l)) : l \in ArgListsOfSize(n - 1)}
    \cup (IF n = 1 THEN {CommentNode, MacroNode("frac", NoArgd)} ELSE {})

TokListsOfSize(n) ==
    IF n = 0
    THEN {<<>>}
    ELSE UNION {{<<t>> \o l : t \in TokOfSize(k), l \in TokListsOfSize(n - k)} : k \in 1..n}

ArgListsOfSize(n) ==
    IF n = 0
    THEN {<<>>}
    ELSE UNION {{<<t>> \o l :
                    t \in {GroupNode(g) : g \in TokListsOfSize(k - 1)}
                          \cup (IF k = 1
                                THEN {NoneArg} \cup {CharsNode(cs) : cs \in CharsOfLen(1)}
                                ELSE {}),
                    l \in ArgListsOfSize(n - k)} : k \in 1..n}

TokLists == UNION {TokListsOfSize(n) : n \in 0..MaxTok}

\* What the handler's inputs make of the walker: it raises, yields nothing,
\* yields a run, or yields a macro with a bare argument.
HandlerWalks ==
    {Raise("LatexWalkerParseError"),
     Return(<<>>),
     Return(<<CharsNode(<<"a", " ", "b">>)>>),
     Return(<<MacroNode("frac", Argd(<<CharsNode(<<"a">>)>>))>>)}

HandlerParses == {Raise("LaTeXParsingError")} \cup {Return(t) : t \in Trees}

\* ------------------------------------------------------------ the machine
Init ==
    /\ pc = "called"
    /\ result = Return(<<>>)
    /\ \/ /\ fn = "evaluate_step_by_step"
          /\ arg \in Trees
          /\ rejected \in RejectChoices
          /\ evalf \in EvalfChoices
       \/ /\ fn = "latex_nodes_to_ast"
          /\ arg \in TokLists
          /\ rejected = "none"
          /\ evalf = "unchanged"
       \/ /\ fn = "latex_to_ast_with_steps"
          /\ arg \in {Latex(p, w) : p \in HandlerParses, w \in HandlerWalks}
          /\ rejected \in RejectChoices
          /\ evalf \in EvalfChoices

CallEvaluate ==
    /\ pc = "called"
    /\ fn = "evaluate_step_by_step"
    /\ result' = evaluate_step_by_step(arg)
    /\ pc' = "returned"
    /\ UNCHANGED <<fn, arg, rejected, evalf>>

CallWalker ==
    /\ pc = "called"
    /\ fn = "latex_nodes_to_ast"
    /\ result' = latex_nodes_to_ast(arg)
    /\ pc' = "returned"
    /\ UNCHANGED <<fn, arg, rejected, evalf>>

CallHandler ==
    /\ pc = "called"
    /\ fn = "latex_to_ast_with_steps"
    /\ result' = latex_to_ast_with_steps(arg)
    /\ pc' = "returned"
    /\ UNCHANGED <<fn, arg, rejected, evalf>>

Next == CallEvaluate \/ CallWalker \/ CallHandler

Spec == Init /\ [][Next]_vars

\* ================================================================ claims
Returned(f) == pc = "returned" /\ fn = f

Composite == {"Add", "Mul", "Pow", "Function"}

\* The step sequences of the children of a composite whose children all returned.
ChildSteps(expr) == [j \in 1..Len(expr.args) |-> evaluate_step_by_step(expr.args[j]).value]

ChildrenReturned(expr) ==
    \A j \in 1..Len(expr.args) : ~evaluate_step_by_step(expr.args[j]).raised

\* C1: the handler is in semantic mode exactly when parse_latex succeeds on
\* the input: a successful parse always yields a returned semantic result,
\* and a syntactic result is returned only when parse_latex itself failed,
\* never because normalisation or step evaluation failed.
C1_SemanticIffParserSucceeds ==
    Returned("latex_to_ast_with_steps") =>
        /\ ~parse_latex(arg).raised => (~result.raised /\ result.value.mode = "semantic")
        /\ (~result.raised /\ result.value.mode = "syntactic") => parse_latex(arg).raised

\* C2: a parse_latex failure is never surfaced: when the token walker
\* succeeds on the input the handler returns a syntactic result with no
\* steps and final_result equal to the input; an error escapes the handler
\* only when the token walker itself fails on that input.
C2_ParserFailureNeverSurfaced ==
    Returned("latex_to_ast_with_steps") =>
        /\ result.raised => latex_to_token_ast(arg).raised
        /\ (parse_latex(arg).raised /\ ~latex_to_token_ast(arg).raised) =>
               /\ ~result.raised
               /\ result.value.mode = "syntactic"
               /\ result.value.steps = <<>>
               /\ result.value.final_result = arg
               /\ result.value.ast = latex_to_token_ast(arg).value

C2_Witness ==
    /\ Returned("latex_to_ast_with_steps")
    /\ parse_latex(arg).raised
    /\ ~result.raised
    /\ result.value.mode = "syntactic"
    /\ Len(result.value.ast.children) = 2

\* C3: for every finite expression tree, Add / Mul / Function nodes with no
\* children included, evaluate_step_by_step returns without raising and the
\* sequence it returns is non-empty (stated where parse_latex rejects no
\* printed form, so that only the tree decides).
C3_EvaluatorNeverRaises ==
    (Returned("evaluate_step_by_step") /\ rejected = "none") =>
        (~result.raised /\ Len(result.value) >= 1)

\* The candidate the claim describes for step i of a composite: each child's
\* i-th step, or its last one when it has fewer, in argument order; a str is
\* re-parsed, a float is handed to the constructor as it is.
C4_Pick(s, i) == IF i <= Len(s) THEN s[i] ELSE s[Len(s)]

C4_Operand(a) ==
    IF a.type = "str" THEN Expr("Parsed", "", 0, <<a.text>>) ELSE Number("Float", a.value)

C4_Candidate(expr, i) ==
    LET s == ChildSteps(expr)
    IN  Expr(expr.kind, expr.name, 0, [j \in 1..Len(s) |-> C4_Operand(C4_Pick(s[j], i))])

C5_StepFailureNeverAborts ==
    /\ (Returned("evaluate_step_by_step") /\ arg.kind \in Composite
            /\ Len(arg.args) >= 1 /\ ChildrenReturned(arg)) =>
           /\ ~result.raised
           /\ Len(result.value) = SetMax({Len(ChildSteps(arg)[j]) : j \in 1..Len(arg.args)})
    /\ (Returned("latex_to_ast_with_steps") /\ ~parse_latex(arg).raised
            /\ parse_latex(arg).value.kind \in Composite
            /\ Len(parse_latex(arg).value.args) >= 1
            /\ ChildrenReturned(parse_latex(arg).value)) =>
           (~result.raised /\ result.value.mode = "semantic")

\* The requested cutoffs: -1 (or absent) and the positive ones.
Cutoffs == {-1} \cup (1..MaxCutoff)

C6_FirstN(full, n) ==
    IF n = -1 THEN full
    ELSE SubSeq(full, 1, IF n <= Len(full) THEN n ELSE Len(full))

C7_StepsAreStrings ==
    /\ (Returned("evaluate_step_by_step") /\ ~result.raised) =>
           \A i \in 1..Len(result.value) : result.value[i].type = "str"
    /\ (Returned("latex_to_ast_with_steps") /\ ~result.raised
            /\ result.value.mode = "semantic") =>
           result.value.final_result.type = "str"

\* The token tree the claim describes: one char node per non-whitespace
\* character of a run, nodes in source order, a macro as one node whose args
\* convert the concatenation of its present arguments' node lists.
RECURSIVE C8_Expected(_)
C8_Expected(nodes) ==
    IF nodes = <<>> THEN <<>>
    ELSE LET node == Head(nodes)
             here ==
                 CASE node.kind = "chars" ->
                         LET kept == SelectSeq(node.chars, LAMBDA ch : ch \notin {" ", "\t", "\n"})
                         IN  [k \in 1..Len(kept) |-> [type |-> "char", value |-> kept[k]]]
                   [] node.kind = "group" ->
                         <<[type |-> "group", children |-> C8_Expected(node.nodelist)]>>
                   [] node.kind = "math" ->
                         <<[type |-> "math", children |-> C8_Expected(node.nodelist)]>>
                   [] node.kind = "macro" ->
                         LET present == SelectSeq(node.nodeargd.argnlist, LAMBDA a : a.kind # "None")
                         IN  <<[type |-> "macro", name |-> "\\" \o node.macroname,
                                args |-> C8_Expected(Concat([k \in 1..Len(present) |->
                                             present[k].nodelist]))]>>
                   [] OTHER -> <<>>
         IN  here \o C8_Expected(Tail(nodes))

\* C8: for every token node list latex_nodes_to_ast emits one char node per
\* non-whitespace character of each run and none for whitespace, emits the
\* nodes in left-to-right source order, and emits a macro with arguments as
\* one macro node whose args are the conversion of the concatenation of its
\* present arguments' node lists.
C8_WalkerOrderAndElision ==
    Returned("latex_nodes_to_ast") => (~result.raised /\ result.value = C8_Expected(arg))

\* The number of output nodes the top level of a node list must yield when
\* every node that is not a character run is represented by one node.
RECURSIVE C9_TopLevelNodes(_)
C9_TopLevelNodes(nodes) ==
    IF nodes = <<>> THEN 0
    ELSE (IF Head(nodes).kind = "chars"
          THEN Len(SelectSeq(Head(nodes).chars, LAMBDA ch : ch \notin {" ", "\t", "\n"}))
          ELSE 1) + C9_TopLevelNodes(Tail(nodes))

\* C9: unsupported kinds degrade: an expression that is none of Number /
\* Symbol / Add / Mul / Pow / Function is normalised to an unknown node
\* holding its text and evaluates to the one-element sequence of that text,
\* and a token node that is none of macro / group / math / character run is
\* still represented by a node of the walker's output, not omitted.
C9_UnsupportedKindsDegrade ==
    /\ (Returned("evaluate_step_by_step") /\ arg.kind = "Unknown") =>
           (~result.raised /\ result.value = <<PyStr(arg)>>)
    /\ (Returned("latex_to_ast_with_steps") /\ ~result.raised
            /\ result.value.mode = "semantic" /\ parse_latex(arg).value.kind = "Unknown") =>
           result.value.ast = [type |-> "unknown", repr |-> PyStr(parse_latex(arg).value)]
    /\ (Returned("latex_nodes_to_ast") /\ ~result.raised) =>
           Len(result.value) = C9_TopLevelNodes(arg)

\* No Add, Mul or Function node of the tree has an empty argument list.
RECURSIVE C10_NoEmptyNode(_)
C10_NoEmptyNode(expr) ==
    /\ expr.kind \in {"Add", "Mul", "Function"} => Len(expr.args) >= 1
    /\ \A j \in 1..Len(expr.args) : C10_NoEmptyNode(expr.args[j])

\* C10: for a tree whose Add / Mul / Function nodes all have a child,
\* evaluate_step_by_step returns a sequence of length exactly 1 whenever it
\* returns, every child of a composite has as many steps as the longest one
\* (the repeat-last-step case never arises), and a semantic result's steps
\* hold exactly one entry, equal to final_result.
C10_SingleStep ==
    /\ (Returned("evaluate_step_by_step") /\ C10_NoEmptyNode(arg) /\ ~result.raised) =>
           /\ Len(result.value) = 1
           /\ arg.kind \in Composite =>
                  \A j \in 1..Len(arg.args) : Len(ChildSteps(arg)[j]) = Len(result.value)
    /\ (Returned("latex_to_ast_with_steps") /\ ~result.raised
            /\ result.value.mode = "semantic") =>
           result.value.steps = <<result.value.final_result>>

C10_Witness ==
    /\ Returned("evaluate_step_by_step")
    /\ arg.kind = "Function"
    /\ Len(arg.args) = 1
    /\ arg.args[1].kind = "Pow"
    /\ rejected = "none"
    /\ ~result.raised
    /\ Len(result.value) = 1

====
